---- MODULE Spec2Model ----
(***************************************************************************)
(* QueueCTL (flam): a durable job queue on SQLite.  The model covers the   *)
(* jobs and config tables (src/flam/db.py), config.json                    *)
(* (src/flam/config.py), the worker loop with its claim, executor and      *)
(* outcome writes (src/flam/worker.py), the init, config set, enqueue,     *)
(* worker-start, worker-stop and dlq retry commands (src/flam/cli.py) and  *)
(* the dashboard's retry route (src/flam/dashboard.py).                    *)
(*                                                                         *)
(* Time is a global clock counted in ticks, Sub ticks to the second.       *)
(* Timestamps are stored the way the code stores them: as the ISO-8601     *)
(* text datetime.isoformat() + "Z" produces, which drops the fractional    *)
(* part when the microsecond field is 0.  The model keeps, for every       *)
(* stored text, its rank in the lexicographic order SQLite compares TEXT   *)
(* columns with (IsoFormat).                                               *)
(***************************************************************************)
EXTENDS Integers, Sequences, FiniteSets, TLC

\* ------------------------------------------------------------------ bounds

\* Worker processes.
NumWorkers == 2
\* Spec: jobs enqueued, and the last tick of its clock, which covers the three
\* backoff delays of a job (2 + 4 + 8 seconds).
MaxJobs == 1
MaxTime == 28
\* SpecOrder: jobs enqueued, and the last tick of its clock.
OrderJobs == 2
OrderTime == 3
\* SpecRetry: jobs enqueued, and the last tick of its clock.
RetryJobs == 2
RetryTime == 32
\* recover_stuck_jobs(timeout_seconds): the threshold the sweep is run with,
\* in seconds (the command line passes 60).
StaleAfter == 1
\* Executions of one job that the history variable runs counts.
MaxRuns == 5
\* SpecCli: jobs enqueued, and the last tick of its clock.
CliJobs == 1
CliTime == 2
\* SpecLive: the jobs in the queue, and the last tick of its clock.
LiveJobs == 2
LiveTime == 28
\* SpecRearm: jobs enqueued, and the last tick of its clock, which leaves
\* room for a sweep before the job's three backoff delays.
RearmJobs == 1
RearmTime == 32
\* SpecStop: jobs enqueued, and the last tick of its clock.
StopJobs == 1
StopTime == 4
\* SpecSweep: jobs enqueued, and the last tick of its clock.
SweepJobs == 2
SweepTime == 3

\* --------------------------------------------------------------- constants

\* Ticks per second: the unit of the model's clock.  datetime.utcnow() counts
\* microseconds; two ticks to the second keep the one distinction the stored
\* text depends on, a zero or a non-zero fraction of the second.
Sub == 2
\* enqueue_job writes these two literals into every row.
DefaultMaxRetries == 3
DefaultBaseBackoff == 2
\* output[:5000]
OutputCap == 5000
\* len("Unknown error")
UnknownErrorLen == 13
\* SQL NULL in a timestamp or integer column.
NULL == -1
\* SQL NULL in locked_by; worker ids are 1..NumWorkers.
NoWorker == 0

Workers == 1..NumWorkers

VARIABLES
    now,        \* the wall clock, in ticks
    jobs,       \* the jobs table: a sequence of rows, the row's index its id
    pc,         \* worker -> "off" | "check" | "claim" | "run"
    held,       \* worker -> the row snapshot claim_one_job returned
    stopFlag,   \* whether stop.flag exists
    startPc,    \* worker-start: "idle" | "update"
    startStuck, \* worker-start: the ids its sweep selected
    startCutoff,\* worker-start: the sweep's cutoff_iso
    dlqPc,      \* retry_dead_job: 0, or the id between its SELECT and UPDATE
    leased,     \* history: ids claimed with no outcome write or sweep since
    runs,       \* history: id -> executions started (counted up to a cap)
    lastExit,   \* history: id -> exit code of the last outcome recorded, or NULL
    columns,    \* the columns of the jobs table; empty while there is no table
    config,     \* the config table: key -> value, NULL for a key with no row
    configFile, \* config.json: key -> value, NULL everywhere while no file
    cmd,        \* the last init, enqueue or config command: its name, its
                \* exit status, and a bit that flips with every such command
    fails,      \* history: id -> failures recorded since enqueue or re-arm
    rearmed,    \* history: the ids retry_dead_job has re-armed
    stamp       \* worker -> the clock its outcome writer has read and not
                \* yet written, or NULL

\* The schema, the two configuration stores and the command's exit status.
storeVars == <<columns, config, configFile, cmd>>

vars == <<now, jobs, pc, held, stopFlag, startPc, startStuck, startCutoff,
          dlqPc, leased, runs, lastExit, columns, config, configFile,
          cmd, fails, rearmed, stamp>>

\* ------------------------------------------------------------------- clock

\* datetime.isoformat() + "Z" of instant t, as its rank among such texts in
\* lexicographic order.  Within one second the text without a fraction
\* ("...:07Z") sorts after every text with one ("...:07.500000Z"), since
\* "." < "Z".
IsoFormat(t) ==
    (t \div Sub) * (Sub + 1) + (IF t % Sub = 0 THEN Sub ELSE t % Sub)

now_iso == IsoFormat(now)

\* SQL comparisons: a comparison with NULL is not true.
SqlLe(a, b) == a # NULL /\ b # NULL /\ a <= b
SqlLt(a, b) == a # NULL /\ b # NULL /\ a < b

RECURSIVE Pow(_, _)
Pow(b, n) == IF n = 0 THEN 1 ELSE b * Pow(b, n - 1)

Ids == 1..Len(jobs)

\* CREATE TABLE IF NOT EXISTS jobs (...): the columns it creates.  The last
\* two lines of the statement have no comma between them, so SQLite reads
\* "TEXT duration_seconds REAL" as the type of last_output and creates no
\* duration_seconds column.
CreatedColumns ==
    {"id", "command", "state", "attempts", "max_retries", "base_backoff",
     "next_run_at", "last_error", "locked_by", "locked_at", "created_at",
     "updated_at", "timeout_seconds", "priority", "last_output"}

\* MIGRATIONS: the columns init_db adds when PRAGMA table_info lacks them.
MigratedColumns ==
    {"locked_at", "timeout_seconds", "priority", "last_output",
     "duration_seconds"}

JobColumns == CreatedColumns \cup MigratedColumns

\* defaults = {"max_retries": "3", "base_backoff": "2"} of init_config, which
\* are the keys of DEFAULT_CONFIG in config.py that the model keeps.
ConfigKeys == {"max_retries", "base_backoff"}
ConfigDefaults ==
    [k \in ConfigKeys |->
        IF k = "max_retries" THEN DefaultMaxRetries ELSE DefaultBaseBackoff]

NoJob == [id |-> 0, attempts |-> 0, max_retries |-> 0, base_backoff |-> 0]

Init ==
    /\ now = 0
    /\ jobs = <<>>
    /\ pc = [w \in Workers |-> "off"]
    /\ held = [w \in Workers |-> NoJob]
    /\ stopFlag = FALSE
    /\ startPc = "idle"
    /\ startStuck = {}
    /\ startCutoff = NULL
    /\ dlqPc = 0
    /\ leased = {}
    /\ runs = <<>>
    /\ lastExit = <<>>
    /\ columns = JobColumns
    /\ config = ConfigDefaults
    /\ configFile = [k \in ConfigKeys |-> NULL]
    /\ cmd = [name |-> "init", exit |-> 0, flip |-> 0]
    /\ fails = <<>>
    /\ rearmed = {}
    /\ stamp = [w \in Workers |-> NULL]

\* The command `name` ends with exit status `code`.
Exited(name, code) == [name |-> name, exit |-> code, flip |-> 1 - cmd.flip]

\* ----------------------------------------------------------------- actions

\* Time passes: d ticks go by with no operation in between.
Tick(d, maxTime) ==
    /\ now + d <= maxTime
    /\ now' = now + d
    /\ UNCHANGED <<jobs, pc, held, stopFlag, startPc, startStuck, startCutoff,
                   dlqPc, leased, runs, lastExit>>
    /\ UNCHANGED <<storeVars, fails, rearmed, stamp>>

\* VALUES (?, ?, 'pending', 0, ?, ?, ?, NULL, NULL, NULL, ?, ?, ?, ?, ?)
NewJobRow(priority, next_run_at, nowIso) ==
    [state |-> "pending", attempts |-> 0,
     max_retries |-> DefaultMaxRetries,
     base_backoff |-> DefaultBaseBackoff,
     next_run_at |-> next_run_at, last_error |-> "NULL",
     locked_by |-> NoWorker, locked_at |-> NULL,
     created_at |-> nowIso, updated_at |-> nowIso,
     priority |-> priority, last_output |-> NULL]

\* An enqueue whose statement also stamps updated_at on the rows it finds.
enqueue_jobStampsRows(priority, next_run_at, maxJobs) ==
    /\ Len(jobs) < maxJobs
    /\ jobs' = Append([j \in Ids |-> [jobs[j] EXCEPT !.updated_at = now_iso]],
                      NewJobRow(priority, next_run_at, now_iso))
    /\ runs' = Append(runs, 0)
    /\ lastExit' = Append(lastExit, NULL)
    /\ UNCHANGED <<now, pc, held, stopFlag, startPc, startStuck, startCutoff,
                   dlqPc, leased>>
    /\ fails' = Append(fails, 0)
    /\ cmd' = Exited("enqueue", 0)
    /\ UNCHANGED <<columns, config, configFile, rearmed, stamp>>

\* enqueue_job(command, timeout_seconds, priority, next_run_at)
enqueue_job(priority, next_run_at, maxJobs) ==
    /\ Len(jobs) < maxJobs
    /\ jobs' = Append(jobs, NewJobRow(priority, next_run_at, now_iso))
    /\ runs' = Append(runs, 0)
    /\ lastExit' = Append(lastExit, NULL)
    /\ UNCHANGED <<now, pc, held, stopFlag, startPc, startStuck, startCutoff,
                   dlqPc, leased>>
    /\ fails' = Append(fails, 0)
    /\ cmd' = Exited("enqueue", 0)
    /\ UNCHANGED <<columns, config, configFile, rearmed, stamp>>

\* ------------------------------------------------------------ claim (worker)

\* A claim query without its state='pending' condition.
EligibleAnyState(row, nowIso) ==
    row.next_run_at = NULL \/ SqlLe(row.next_run_at, nowIso)

\* A claim query without its `next_run_at <= ?` alternative.
EligibleUnscheduled(row, nowIso) ==
    /\ row.state = "pending"
    /\ row.next_run_at = NULL

\* WHERE state='pending' AND (next_run_at IS NULL OR next_run_at <= ?)
Eligible(row, nowIso) ==
    /\ row.state = "pending"
    /\ (row.next_run_at = NULL \/ SqlLe(row.next_run_at, nowIso))

\* ORDER BY priority DESC, created_at ASC: row a sorts strictly before row b.
SortsBefore(a, b) ==
    \/ a.priority > b.priority
    \/ a.priority = b.priority /\ a.created_at < b.created_at

\* The rows LIMIT 1 may return: the eligible rows no other eligible row sorts
\* before (rows equal in both keys come in an order SQLite does not fix).
ClaimCandidates(nowIso) ==
    LET el == {j \in Ids : Eligible(jobs[j], nowIso)}
    IN  {j \in el : \A k \in el : ~SortsBefore(jobs[k], jobs[j])}

\* UPDATE jobs SET state='processing', locked_by=?, locked_at=?, updated_at=?
ClaimedRow(row, w, nowIso) ==
    [row EXCEPT !.state = "processing", !.locked_by = w,
                !.locked_at = nowIso, !.updated_at = nowIso]

\* dict(row) of the SELECT's columns.
Snapshot(j) ==
    [id |-> j, attempts |-> jobs[j].attempts,
     max_retries |-> jobs[j].max_retries,
     base_backoff |-> jobs[j].base_backoff]

Bump(n, cap) == IF n < cap THEN n + 1 ELSE n

\* A worker that also looks for the stop flag while its command runs, and
\* leaves at once.
CheckStopMidJob(w) ==
    /\ pc[w] = "check" \/ (pc[w] = "run" /\ stopFlag)
    /\ pc' = [pc EXCEPT ![w] = IF stopFlag THEN "off" ELSE "claim"]
    /\ UNCHANGED <<now, jobs, held, stopFlag, startPc, startStuck, startCutoff,
                   dlqPc, leased, runs, lastExit>>
    /\ UNCHANGED <<storeVars, fails, rearmed, stamp>>

\* worker_loop: the stop flag check at the top of the loop.
CheckStop(w) ==
    /\ pc[w] = "check"
    /\ pc' = [pc EXCEPT ![w] = IF stopFlag THEN "off" ELSE "claim"]
    /\ UNCHANGED <<now, jobs, held, stopFlag, startPc, startStuck, startCutoff,
                   dlqPc, leased, runs, lastExit>>
    /\ UNCHANGED <<storeVars, fails, rearmed, stamp>>

\* claim_one_job(): one BEGIN IMMEDIATE transaction.
claim_one_job(w, runsCap) ==
    /\ pc[w] = "claim"
    /\ \/ /\ ClaimCandidates(now_iso) = {}
          /\ pc' = [pc EXCEPT ![w] = "check"]
          /\ UNCHANGED <<jobs, held, leased, runs>>
       \/ \E j \in ClaimCandidates(now_iso) :
             /\ jobs' = [jobs EXCEPT ![j] = ClaimedRow(jobs[j], w, now_iso)]
             /\ held' = [held EXCEPT ![w] = Snapshot(j)]
             /\ pc' = [pc EXCEPT ![w] = "run"]
             /\ leased' = leased \cup {j}
             /\ runs' = [runs EXCEPT ![j] = Bump(runs[j], runsCap)]
    /\ UNCHANGED <<now, stopFlag, startPc, startStuck, startCutoff, dlqPc,
                   lastExit>>
    /\ UNCHANGED <<storeVars, fails, rearmed, stamp>>

\* worker_loop: time.sleep(poll_interval) after a claim that found no job.
\* Time passes while every worker waits for a job to come due.
TickIdle(d, maxTime) ==
    /\ \A w \in Workers : pc[w] # "run"
    /\ ClaimCandidates(now_iso) = {}
    /\ Tick(d, maxTime)

\* ------------------------------------------------------------ outcome writer

\* An outcome writer that stores the output whole.
TruncateNone(len) == len

\* output[:5000]
Truncate(len) == IF len > OutputCap THEN OutputCap ELSE len

\* A backoff computed as base_backoff * 0 seconds.
BackoffTicksNone(base, attempts) == 0

\* timedelta(seconds=job["base_backoff"] ** attempts), in ticks.
BackoffTicks(base, attempts) == Pow(base, attempts) * Sub

\* update_job_success: UPDATE ... WHERE id=?
SuccessRow(row, out, nowIso) ==
    [row EXCEPT !.state = "completed", !.last_output = Truncate(out),
                !.updated_at = nowIso]

\* A failure write that sends the job to the DLQ one attempt early (>=).
FailureRowEarlyDead(row, job, out, t) ==
    LET attempts == job.attempts + 1
        next_run == IsoFormat(t + BackoffTicks(job.base_backoff, attempts))
    IN  IF attempts >= job.max_retries
        THEN [row EXCEPT !.state = "dead", !.attempts = attempts,
                         !.last_error = "Max retries exceeded",
                         !.last_output = Truncate(out),
                         !.updated_at = IsoFormat(t)]
        ELSE [row EXCEPT !.state = "pending", !.attempts = attempts,
                         !.next_run_at = next_run,
                         !.last_error = "Job failed",
                         !.last_output = Truncate(out),
                         !.updated_at = IsoFormat(t)]

\* update_job_failure: UPDATE ... WHERE id=?, the dead or the retry branch.
FailureRow(row, job, out, t) ==
    LET attempts == job.attempts + 1
        next_run == IsoFormat(t + BackoffTicks(job.base_backoff, attempts))
    IN  IF attempts > job.max_retries
        THEN [row EXCEPT !.state = "dead", !.attempts = attempts,
                         !.last_error = "Max retries exceeded",
                         !.last_output = Truncate(out),
                         !.updated_at = IsoFormat(t)]
        ELSE [row EXCEPT !.state = "pending", !.attempts = attempts,
                         !.next_run_at = next_run,
                         !.last_error = "Job failed",
                         !.last_output = Truncate(out),
                         !.updated_at = IsoFormat(t)]

\* A worker loop that records every execution as a success.
OutcomeRowIgnoresCode(row, job, code, out, t) ==
    SuccessRow(row, out, IsoFormat(t))

\* worker_loop: if code == 0: update_job_success(jid, combined_output)
\*              else: update_job_failure(job, combined_output or "Unknown error")
OutcomeRow(row, job, code, out, t) ==
    IF code = 0
    THEN SuccessRow(row, out, IsoFormat(t))
    ELSE FailureRow(row, job, IF out = 0 THEN UnknownErrorLen ELSE out, t)

\* worker_loop after run_command returned (code, out + err): the outcome
\* writer reads the clock and writes with no other process in between.
Finish(w, code, out, failsCap) ==
    /\ pc[w] = "run"
    /\ stamp[w] = NULL
    /\ LET j == held[w].id
       IN  /\ jobs' = [jobs EXCEPT ![j] =
                          OutcomeRow(jobs[j], held[w], code, out, now)]
           /\ leased' = leased \ {j}
           /\ lastExit' = [lastExit EXCEPT ![j] = code]
           /\ fails' = [fails EXCEPT ![j] =
                           IF code = 0 THEN @ ELSE Bump(@, failsCap)]
    /\ pc' = [pc EXCEPT ![w] = "check"]
    /\ held' = [held EXCEPT ![w] = NoJob]
    /\ UNCHANGED <<now, stopFlag, startPc, startStuck, startCutoff, dlqPc, runs>>
    /\ UNCHANGED <<storeVars, rearmed, stamp>>

\* The outcome writer of worker w evaluates now_iso(), before its UPDATE
\* has the write lock of the database.
ReadClock(w) ==
    /\ pc[w] = "run"
    /\ stamp[w] = NULL
    /\ stamp' = [stamp EXCEPT ![w] = now]
    /\ UNCHANGED <<now, jobs, pc, held, stopFlag, startPc, startStuck,
                   startCutoff, dlqPc, leased, runs, lastExit>>
    /\ UNCHANGED <<storeVars, fails, rearmed>>

\* The UPDATE of the outcome writer of worker w, with the timestamp it
\* has read.
WriteOutcome(w, code, out, failsCap) ==
    /\ pc[w] = "run"
    /\ stamp[w] # NULL
    /\ LET j == held[w].id
       IN  /\ jobs' = [jobs EXCEPT ![j] =
                          OutcomeRow(jobs[j], held[w], code, out, stamp[w])]
           /\ leased' = leased \ {j}
           /\ lastExit' = [lastExit EXCEPT ![j] = code]
           /\ fails' = [fails EXCEPT ![j] =
                           IF code = 0 THEN @ ELSE Bump(@, failsCap)]
    /\ pc' = [pc EXCEPT ![w] = "check"]
    /\ held' = [held EXCEPT ![w] = NoJob]
    /\ stamp' = [stamp EXCEPT ![w] = NULL]
    /\ UNCHANGED <<now, stopFlag, startPc, startStuck, startCutoff, dlqPc, runs>>
    /\ UNCHANGED <<storeVars, rearmed>>

\* ------------------------------------------- worker-start and recovery sweep

\* A sweep that looks at the lock alone: WHERE locked_at < ?
StuckAnyState(row, cutoffIso) == SqlLt(row.locked_at, cutoffIso)

\* WHERE state='processing' AND locked_at < ?
Stuck(row, cutoffIso) ==
    row.state = "processing" /\ SqlLt(row.locked_at, cutoffIso)

\* A sweep that clears the lock and forgets to set state='pending'.
RecoveredRowKeepsState(row, nowIso) ==
    [row EXCEPT !.locked_by = NoWorker, !.locked_at = NULL,
                !.updated_at = nowIso]

\* UPDATE jobs SET state='pending', locked_by=NULL, locked_at=NULL, updated_at=?
RecoveredRow(row, nowIso) ==
    [row EXCEPT !.state = "pending", !.locked_by = NoWorker,
                !.locked_at = NULL, !.updated_at = nowIso]

\* recover_stuck_jobs: the SELECT.
RecoverSelect ==
    /\ startPc = "idle"
    /\ LET cutoff_iso == IsoFormat(now - StaleAfter * Sub)
       IN  /\ startCutoff' = cutoff_iso
           /\ startStuck' = {j \in Ids : Stuck(jobs[j], cutoff_iso)}
    /\ startPc' = "update"
    /\ UNCHANGED <<now, jobs, pc, held, stopFlag, dlqPc, leased, runs, lastExit>>
    /\ UNCHANGED <<storeVars, fails, rearmed, stamp>>

\* recover_stuck_jobs: the UPDATE, a statement (and transaction) of its own;
\* then worker_start removes stop.flag and starts the worker processes S.
\* (Neither touches the table, so the three are one step.)
RecoverUpdate(S) ==
    /\ startPc = "update"
    /\ S \subseteq {w \in Workers : pc[w] = "off"}
    /\ LET hit == {j \in Ids : Stuck(jobs[j], startCutoff)}
       IN  /\ jobs' = [j \in Ids |-> IF j \in hit
                                     THEN RecoveredRow(jobs[j], now_iso)
                                     ELSE jobs[j]]
           /\ leased' = leased \ hit
    /\ stopFlag' = FALSE
    /\ pc' = [w \in Workers |-> IF w \in S THEN "check" ELSE pc[w]]
    /\ startPc' = "idle"
    /\ startStuck' = {}
    /\ startCutoff' = NULL
    /\ UNCHANGED <<now, held, dlqPc, runs, lastExit>>
    /\ UNCHANGED <<storeVars, fails, rearmed, stamp>>

\* worker_stop: create stop.flag.
worker_stop ==
    /\ stopFlag' = TRUE
    /\ UNCHANGED <<now, jobs, pc, held, startPc, startStuck, startCutoff, dlqPc,
                   leased, runs, lastExit>>
    /\ UNCHANGED <<storeVars, fails, rearmed, stamp>>

\* ------------------------------------------------------ DLQ re-arm, dashboard

\* UPDATE jobs SET state='pending', attempts=0, next_run_at=NULL,
\*                 last_error=NULL, updated_at=? WHERE id=?
RearmedRow(row, nowIso) ==
    [row EXCEPT !.state = "pending", !.attempts = 0, !.next_run_at = NULL,
                !.last_error = "NULL", !.updated_at = nowIso]

\* retry_dead_job: SELECT id FROM jobs WHERE id=? AND state='dead'
DlqSelect(j) ==
    /\ dlqPc = 0
    /\ dlqPc' = IF j \in Ids /\ jobs[j].state = "dead" THEN j ELSE 0
    /\ UNCHANGED <<now, jobs, pc, held, stopFlag, startPc, startStuck,
                   startCutoff, leased, runs, lastExit>>
    /\ UNCHANGED <<storeVars, fails, rearmed, stamp>>

\* retry_dead_job: the UPDATE ... WHERE id=?
DlqUpdate ==
    /\ dlqPc # 0
    /\ jobs' = [jobs EXCEPT ![dlqPc] = RearmedRow(jobs[dlqPc], now_iso)]
    /\ dlqPc' = 0
    /\ UNCHANGED <<now, pc, held, stopFlag, startPc, startStuck, startCutoff,
                   leased, runs, lastExit>>
    /\ fails' = [fails EXCEPT ![dlqPc] = 0]
    /\ rearmed' = rearmed \cup {dlqPc}
    /\ UNCHANGED <<storeVars, stamp>>

\* dashboard GET /job/{job_id}/retry: the row is found, whatever its state.
job_retry(j) ==
    /\ j \in Ids
    /\ jobs' = [jobs EXCEPT ![j] = RearmedRow(jobs[j], now_iso)]
    /\ UNCHANGED <<now, pc, held, stopFlag, startPc, startStuck, startCutoff,
                   dlqPc, leased, runs, lastExit>>
    /\ fails' = [fails EXCEPT ![j] = 0]
    /\ UNCHANGED <<storeVars, rearmed, stamp>>

\* ------------------------------------------------- executor (run_command)

\* return 124, "", f"Timeout after {timeout_seconds} seconds"
TimeoutCode == 124
\* len("Timeout after 1 seconds")
TimeoutMsgLen == 23

\* run_command(cmd, timeout_seconds): the exit code and the length of
\* stdout + stderr.  The child exits with `code` after writing `out`
\* characters, unless the timeout expires first (timedOut).
run_command(timedOut, code, out) ==
    IF timedOut THEN <<TimeoutCode, TimeoutMsgLen>> ELSE <<code, out>>

\* worker_loop: code, out, err = run_command(cmd, timeout_sec), then the
\* outcome write.
Execute(w, timedOut, code, out, failsCap) ==
    LET r == run_command(timedOut, code, out)
    IN  Finish(w, r[1], r[2], failsCap)

\* ------------------------------------------- commands: init, config, enqueue

\* An init_config that writes its defaults with INSERT OR REPLACE.
init_configReplace(table) == ConfigDefaults

\* INSERT OR IGNORE INTO config (key, value): a key that has a row keeps it.
init_config(table) ==
    [k \in ConfigKeys |->
        IF table[k] = NULL THEN ConfigDefaults[k] ELSE table[k]]

\* queuectl init: init_db, then init_config.
init_db ==
    /\ columns' = (IF columns = {} THEN CreatedColumns ELSE columns)
                      \cup MigratedColumns
    /\ config' = init_config(config)
    /\ cmd' = Exited("init", 0)
    /\ UNCHANGED <<now, jobs, pc, held, stopFlag, startPc, startStuck,
                   startCutoff, dlqPc, leased, runs, lastExit, configFile,
                   fails, rearmed, stamp>>

\* set_config(key, value): INSERT OR REPLACE INTO config
set_config(key, value) ==
    /\ config' = [config EXCEPT ![key] = value]
    /\ UNCHANGED <<now, jobs, pc, held, stopFlag, startPc, startStuck,
                   startCutoff, dlqPc, leased, runs, lastExit, columns,
                   configFile, cmd, fails, rearmed, stamp>>

\* load_config(): DEFAULT_CONFIG when there is no file, and else the file
\* with the default for every key it lacks.
load_config ==
    [k \in ConfigKeys |->
        IF configFile[k] = NULL THEN ConfigDefaults[k] ELSE configFile[k]]

\* int(value) of a text of decimal digits.
RECURSIVE int(_)
int(value) ==
    IF Len(value) = 1
    THEN value[1]
    ELSE int(SubSeq(value, 1, Len(value) - 1)) * 10 + value[Len(value)]

\* str(n) of a natural number: its digits, with no leading zero.
RECURSIVE str(_)
str(n) == IF n < 10 THEN <<n>> ELSE str(n \div 10) \o <<n % 10>>

\* What `queuectl config get KEY` prints after "KEY = ".
config_get_echo(key) == str(load_config[key])

\* queuectl config get KEY: load_config() writes config.json when there is
\* none.
config_get(key) ==
    /\ configFile' = load_config
    /\ cmd' = Exited("config get", 0)
    /\ UNCHANGED <<now, jobs, pc, held, stopFlag, startPc, startStuck,
                   startCutoff, dlqPc, leased, runs, lastExit, columns, config,
                   fails, rearmed, stamp>>

\* A config set that writes the one key into an empty dictionary.
config_setFresh(key, value) ==
    /\ configFile' = [k \in ConfigKeys |->
                         IF k = key THEN int(value) ELSE NULL]
    /\ cmd' = Exited("config set", 0)
    /\ UNCHANGED <<now, jobs, pc, held, stopFlag, startPc, startStuck,
                   startCutoff, dlqPc, leased, runs, lastExit, columns, config,
                   fails, rearmed, stamp>>

\* queuectl config set KEY VALUE, VALUE a text of decimal digits
config_set(key, value) ==
    /\ configFile' = [load_config EXCEPT ![key] = int(value)]
    /\ cmd' = Exited("config set", 0)
    /\ UNCHANGED <<now, jobs, pc, held, stopFlag, startPc, startStuck,
                   startCutoff, dlqPc, leased, runs, lastExit, columns, config,
                   fails, rearmed, stamp>>

\* A --run-at text that datetime.fromisoformat rejects.
BadTime == -2

\* parse_run_at(run_at), for a text that parses: the instant, as
\* isoformat() writes it.
parse_run_at(run_at) == IF run_at = NULL THEN NULL ELSE IsoFormat(run_at)

\* The command ends with status `code` and has written nothing.
Reject(code) ==
    /\ cmd' = Exited("enqueue", code)
    /\ UNCHANGED <<now, jobs, pc, held, stopFlag, startPc, startStuck,
                   startCutoff, dlqPc, leased, runs, lastExit, columns, config,
                   configFile, fails, rearmed, stamp>>

\* An enqueue that tests `run_at and delay`: --delay 0 does not count as set.
enqueueDelayTruthy(priority, run_at, delay, maxJobs) ==
    IF run_at # NULL /\ delay # NULL /\ delay # 0
    THEN Reject(2)
    ELSE IF run_at = BadTime
    THEN Reject(1)
    ELSE LET next_run_iso ==
                 IF run_at # NULL THEN parse_run_at(run_at)
                 ELSE IF delay # NULL /\ delay # 0
                      THEN IsoFormat(now + delay * Sub)
                      ELSE NULL
         IN  enqueue_job(priority, next_run_iso, maxJobs)

\* queuectl enqueue COMMAND --priority P --run-at R --delay D (NULL: the
\* option is not given).  typer.Exit(2) when both are given; the ValueError
\* of parse_run_at is not caught and ends the process with status 1.
enqueue(priority, run_at, delay, maxJobs) ==
    IF run_at # NULL /\ delay # NULL
    THEN Reject(2)
    ELSE IF run_at = BadTime
    THEN Reject(1)
    ELSE LET next_run_iso ==
                 IF run_at # NULL THEN parse_run_at(run_at)
                 ELSE IF delay # NULL /\ delay # 0
                      THEN IsoFormat(now + delay * Sub)
                      ELSE NULL
         IN  enqueue_job(priority, next_run_iso, maxJobs)

\* ---------------------------------------------------------- specifications

Priorities == {0, 1}
\* next_run_at of an enqueue: none, or a run-at / delay one second ahead.
RunAts == {NULL, IsoFormat(now + Sub)}
ExitCodes == {0, 1}
FailCodes == {1}
Outputs == {1}
\* worker-start --count k starts the k lowest-numbered idle worker slots.
Starts == {S \in SUBSET Workers :
             \A w \in S : \A v \in Workers : (v < w /\ pc[v] = "off") => v \in S}
\* The clock of Spec moves in steps of the shortest backoff delay.
CoarseTick == DefaultBaseBackoff * Sub

\* Every operation that writes the jobs table, any number of workers; one
\* priority, no scheduled enqueue, a coarse clock.
Next ==
    \/ Tick(CoarseTick, MaxTime)
    \/ enqueue_job(0, NULL, MaxJobs)
    \/ RecoverSelect
    \/ \E S \in Starts : RecoverUpdate(S)
    \/ \E w \in Workers : CheckStop(w)
    \/ \E w \in Workers : claim_one_job(w, 0)
    \/ \E w \in Workers, c \in ExitCodes, o \in Outputs : Finish(w, c, o, 0)
    \/ \E j \in 1..MaxJobs : DlqSelect(j)
    \/ DlqUpdate
    \/ \E j \in 1..MaxJobs : job_retry(j)

Spec == Init /\ [][Next]_vars

\* The state after init and worker-start --count 1 on an empty table.
InitOneWorker ==
    /\ now = 0
    /\ jobs = <<>>
    /\ pc = [w \in Workers |-> IF w = 1 THEN "check" ELSE "off"]
    /\ held = [w \in Workers |-> NoJob]
    /\ stopFlag = FALSE
    /\ startPc = "idle"
    /\ startStuck = {}
    /\ startCutoff = NULL
    /\ dlqPc = 0
    /\ leased = {}
    /\ runs = <<>>
    /\ lastExit = <<>>
    /\ columns = JobColumns
    /\ config = ConfigDefaults
    /\ configFile = [k \in ConfigKeys |-> NULL]
    /\ cmd = [name |-> "init", exit |-> 0, flip |-> 0]
    /\ fails = <<>>
    /\ rearmed = {}
    /\ stamp = [w \in Workers |-> NULL]

\* One worker, jobs of both priorities, scheduled or not, a clock that moves
\* tick by tick: what the claim query selects.
NextOrder ==
    \/ Tick(1, OrderTime)
    \/ \E p \in Priorities, r \in RunAts : enqueue_job(p, r, OrderJobs)
    \/ CheckStop(1)
    \/ claim_one_job(1, 0)
    \/ \E c \in ExitCodes, o \in Outputs : Finish(1, c, o, 0)

SpecOrder == InitOneWorker /\ [][NextOrder]_vars

\* One worker, no recovery sweep, no re-arm, every execution fails; a coarse
\* clock.
NextRetry ==
    \/ Tick(CoarseTick, RetryTime)
    \/ enqueue_job(0, NULL, RetryJobs)
    \/ CheckStop(1)
    \/ claim_one_job(1, MaxRuns)
    \/ \E c \in FailCodes, o \in Outputs : Finish(1, c, o, 0)

SpecRetry == InitOneWorker /\ [][NextRetry]_vars

\* One worker and the recovery sweep of worker-start, which may run again
\* while the worker is busy; a clock that moves tick by tick.
NextSweep ==
    \/ Tick(1, SweepTime)
    \/ enqueue_job(0, NULL, SweepJobs)
    \/ RecoverSelect
    \/ \E S \in SUBSET {1} : RecoverUpdate(S)
    \/ CheckStop(1)
    \/ claim_one_job(1, 0)
    \/ \E c \in ExitCodes, o \in Outputs : Finish(1, c, o, 0)

SpecSweep == Init /\ [][NextSweep]_vars

\* The workers, the recovery sweep and the DLQ re-arm, with no dashboard; the
\* failures of a job are counted.
NextRearm ==
    \/ Tick(CoarseTick, RearmTime)
    \/ enqueue_job(0, NULL, RearmJobs)
    \/ RecoverSelect
    \/ \E S \in Starts : RecoverUpdate(S)
    \/ \E w \in Workers : CheckStop(w)
    \/ \E w \in Workers : claim_one_job(w, 0)
    \/ \E w \in Workers, c \in ExitCodes, o \in Outputs :
          Finish(w, c, o, MaxRuns)
    \/ \E j \in 1..RearmJobs : DlqSelect(j)
    \/ DlqUpdate

SpecRearm == Init /\ [][NextRearm]_vars

\* The state after init, LiveJobs enqueues and worker-start --count
\* NumWorkers.
InitLive ==
    /\ now = 0
    /\ jobs = [j \in 1..LiveJobs |-> NewJobRow(0, NULL, IsoFormat(0))]
    /\ pc = [w \in Workers |-> "check"]
    /\ held = [w \in Workers |-> NoJob]
    /\ stopFlag = FALSE
    /\ startPc = "idle"
    /\ startStuck = {}
    /\ startCutoff = NULL
    /\ dlqPc = 0
    /\ leased = {}
    /\ runs = [j \in 1..LiveJobs |-> 0]
    /\ lastExit = [j \in 1..LiveJobs |-> NULL]
    /\ columns = JobColumns
    /\ config = ConfigDefaults
    /\ configFile = [k \in ConfigKeys |-> NULL]
    /\ cmd = [name |-> "enqueue", exit |-> 0, flip |-> 0]
    /\ fails = [j \in 1..LiveJobs |-> 0]
    /\ rearmed = {}
    /\ stamp = [w \in Workers |-> NULL]

\* One pass of worker w through a step of worker_loop.
WorkerStep(w) ==
    \/ CheckStop(w)
    \/ claim_one_job(w, MaxRuns)
    \/ \E c \in ExitCodes, o \in Outputs : Finish(w, c, o, 0)

\* A fixed population of jobs and workers that keep running: no command, no
\* sweep, no stop flag.  Executions take no time, and the clock moves when
\* the workers have nothing to claim.
NextLive ==
    \/ TickIdle(CoarseTick, LiveTime)
    \/ \E w \in Workers : WorkerStep(w)

\* Every worker process keeps being scheduled, every execution ends, and
\* time goes on.
SpecLive ==
    /\ InitLive
    /\ [][NextLive]_vars
    /\ WF_vars(TickIdle(CoarseTick, LiveTime))
    /\ \A w \in Workers : WF_vars(WorkerStep(w))

\* worker-start and worker-stop, at any time, around the workers' loops.
NextStop ==
    \/ Tick(CoarseTick, StopTime)
    \/ enqueue_job(0, NULL, StopJobs)
    \/ RecoverSelect
    \/ \E S \in Starts : RecoverUpdate(S)
    \/ worker_stop
    \/ \E w \in Workers : CheckStop(w)
    \/ \E w \in Workers : claim_one_job(w, 0)
    \/ \E w \in Workers, c \in ExitCodes, o \in Outputs : Finish(w, c, o, 0)

SpecStop == Init /\ [][NextStop]_vars

\* Nothing exists yet: no table, no config.json, no worker.
InitFresh ==
    /\ now = 0
    /\ jobs = <<>>
    /\ pc = [w \in Workers |-> "off"]
    /\ held = [w \in Workers |-> NoJob]
    /\ stopFlag = FALSE
    /\ startPc = "idle"
    /\ startStuck = {}
    /\ startCutoff = NULL
    /\ dlqPc = 0
    /\ leased = {}
    /\ runs = <<>>
    /\ lastExit = <<>>
    /\ columns = {}
    /\ config = [k \in ConfigKeys |-> NULL]
    /\ configFile = [k \in ConfigKeys |-> NULL]
    /\ cmd = [name |-> "none", exit |-> 0, flip |-> 0]
    /\ fails = <<>>
    /\ rearmed = {}
    /\ stamp = [w \in Workers |-> NULL]

ConfigValues == {9}
\* VALUE arguments of config set: 9, and 9 written with a leading zero.
ConfigTexts == {<<9>>, <<0, 9>>}
RunAtArgs == {NULL, BadTime, now + Sub}
DelayArgs == {NULL, 0, 1}
TimedOut == {FALSE, TRUE}

\* The tables a command or a worker finds in queue.db: none before init.
Tables == IF columns = {} THEN {} ELSE {"jobs"}

\* The commands and one worker: init (first of all, and again at any time),
\* config set, set_config, enqueue with its scheduling options, and commands
\* that exit or run into their timeout.  All but init need the jobs table.
NextCli ==
    \/ init_db
    \/ \E t \in Tables : Tick(Sub, CliTime)
    \/ \E t \in Tables, r \in RunAtArgs, d \in DelayArgs :
          enqueue(0, r, d, CliJobs)
    \/ \E t \in Tables, k \in ConfigKeys, v \in ConfigTexts : config_set(k, v)
    \/ \E t \in Tables, k \in ConfigKeys, v \in ConfigValues : set_config(k, v)
    \/ \E t \in Tables : RecoverSelect
    \/ \E t \in Tables, S \in SUBSET {1} : RecoverUpdate(S)
    \/ \E t \in Tables : CheckStop(1)
    \/ \E t \in Tables : claim_one_job(1, 0)
    \/ \E t \in Tables, x \in TimedOut, c \in ExitCodes, o \in Outputs :
          Execute(1, x, c, o, 0)

SpecCli == InitFresh /\ [][NextCli]_vars

BackoffTime == 5

\* One worker and one job whose executions all fail, on a clock that moves
\* tick by tick: the instants between a failure and the end of its delay.
NextBackoff ==
    \/ Tick(1, BackoffTime)
    \/ enqueue_job(0, NULL, 1)
    \/ CheckStop(1)
    \/ claim_one_job(1, MaxRuns)
    \/ \E c \in FailCodes, o \in Outputs : Finish(1, c, o, MaxRuns)

SpecBackoff == InitOneWorker /\ [][NextBackoff]_vars

OutputTime == 28

\* Lengths of out + err: nothing, or one character more than the column keeps.
LongOutputs == {0, OutputCap + 1}

\* One worker and one job whose executions print nothing or too much, and
\* succeed or fail; a coarse clock that leaves room for the three backoff
\* delays.
NextOutput ==
    \/ Tick(CoarseTick, OutputTime)
    \/ enqueue_job(0, NULL, 1)
    \/ CheckStop(1)
    \/ claim_one_job(1, 0)
    \/ \E c \in ExitCodes, o \in LongOutputs : Finish(1, c, o, 0)

SpecOutput == InitOneWorker /\ [][NextOutput]_vars

ClockTime == 8

\* The workers and the recovery sweep, with the outcome writer in its two
\* steps: other processes run between its reading of the clock and its
\* UPDATE.
NextClock ==
    \/ Tick(CoarseTick, ClockTime)
    \/ enqueue_job(0, NULL, 1)
    \/ RecoverSelect
    \/ \E S \in Starts : RecoverUpdate(S)
    \/ \E w \in Workers : CheckStop(w)
    \/ \E w \in Workers : claim_one_job(w, 0)
    \/ \E w \in Workers : ReadClock(w)
    \/ \E w \in Workers, c \in ExitCodes, o \in Outputs :
          WriteOutcome(w, c, o, 0)

SpecClock == Init /\ [][NextClock]_vars

\* worker-start and worker-stop, at any time, around workers that keep
\* being scheduled.
NextStopLive ==
    \/ Tick(CoarseTick, StopTime)
    \/ enqueue_job(0, NULL, StopJobs)
    \/ RecoverSelect
    \/ \E S \in Starts : RecoverUpdate(S)
    \/ worker_stop
    \/ \E w \in Workers : WorkerStep(w)

\* Every worker process that runs keeps being scheduled and every execution
\* ends; nothing makes an operator run worker-start or worker-stop.
SpecStopLive ==
    /\ Init
    /\ [][NextStopLive]_vars
    /\ \A w \in Workers : WF_vars(WorkerStep(w))

\* worker-stop, worker-start and init, at any time, around the workers'
\* loops.
NextPersist ==
    \/ NextStop
    \/ init_db

SpecPersist == Init /\ [][NextPersist]_vars

\* VALUE arguments of config set in SpecConfig.
SetTexts == {<<7>>, <<0, 9>>, <<1, 0>>}

\* The configuration commands, and init with the config table of queue.db.
NextConfig ==
    \/ init_db
    \/ \E k \in ConfigKeys, v \in SetTexts : config_set(k, v)
    \/ \E k \in ConfigKeys : config_get(k)
    \/ \E t \in Tables, k \in ConfigKeys, v \in ConfigValues : set_config(k, v)

SpecConfig == InitFresh /\ [][NextConfig]_vars

\* ------------------------------------------------------------------ claims

\* The instant a stored timestamp text denotes (IsoFormat read back).
IsoTime(k) ==
    LET s == (k - 1) \div (Sub + 1)
        r == k - s * (Sub + 1)
    IN  s * Sub + (IF r = Sub THEN 0 ELSE r)

\* Steps of worker w, read off its position in worker_loop.
ClaimStep(w) == pc[w] = "claim" /\ pc'[w] = "run"
NoWorkStep(w) == pc[w] = "claim" /\ pc'[w] = "check"
FinishStep(w) == pc[w] = "run" /\ pc'[w] = "check"

\* A pending row whose next_run_at is absent or an instant not after now.
Due(row) ==
    /\ row.state = "pending"
    /\ (row.next_run_at = NULL \/ IsoTime(row.next_run_at) <= now)

\* C1: once a claim has moved a job to processing, no claim returns that job
\* again until an outcome write or the recovery sweep has released it: a
\* claim never returns a job that is still leased.
C1_ExclusiveLease ==
    [][\A w \in Workers : ClaimStep(w) => held'[w].id \notin leased]_vars

\* C2: every job that is pending, completed or dead has locked_by and
\* locked_at absent.
C2_NoLockOutsideProcessing ==
    \A j \in Ids :
        jobs[j].state \in {"pending", "completed", "dead"}
            => jobs[j].locked_by = NoWorker /\ jobs[j].locked_at = NULL

\* C3: every job that is processing has locked_by and locked_at set.
C3_ProcessingIsLocked ==
    \A j \in Ids :
        jobs[j].state = "processing"
            => jobs[j].locked_by # NoWorker /\ jobs[j].locked_at # NULL

\* A processing job under worker 2's lease that worker 1, its earlier
\* claimant, is still running.
C3_Witness ==
    \E j \in Ids :
        /\ jobs[j].state = "processing"
        /\ jobs[j].locked_by = 2
        /\ pc[1] = "run" /\ held[1].id = j

\* C4: a completed job never changes state again, and a dead job changes state
\* only through the DLQ re-arm's update (dead -> pending).
C4_TerminalStates ==
    [][\A j \in Ids :
          /\ jobs[j].state = "completed" => jobs'[j].state = "completed"
          /\ jobs[j].state = "dead" =>
                \/ jobs'[j].state = "dead"
                \/ dlqPc = j /\ dlqPc' = 0 /\ jobs'[j].state = "pending"]_vars

\* C5: attempts >= 0 for every job, and every dead job has
\* attempts > max_retries.
C5_DeadExceedsMaxRetries ==
    \A j \in Ids :
        /\ jobs[j].attempts >= 0
        /\ jobs[j].state = "dead" => jobs[j].attempts > jobs[j].max_retries

\* A dead job that a worker is still running: the job went back to pending and
\* was claimed again before another claimant's failure sent it to the DLQ.
C5_Witness ==
    \E j \in Ids :
        /\ jobs[j].state = "dead"
        /\ \E w \in Workers : pc[w] = "run" /\ held[w].id = j

\* C6: a claim never moves a job to processing at an instant earlier than the
\* job's next_run_at.
C6_NotBeforeNextRunAt ==
    [][\A w \in Workers :
          ClaimStep(w) =>
              LET r == jobs[held'[w].id].next_run_at
              IN  r = NULL \/ IsoTime(r) <= now]_vars

\* C7: a claim returns a due pending job of the highest priority and, among
\* those, of the oldest created_at; it returns no work only when no pending
\* job is due.
C7_ClaimOrder ==
    [][\A w \in Workers :
          /\ ClaimStep(w) =>
                LET c == jobs[held'[w].id]
                IN  /\ Due(c)
                    /\ \A k \in Ids :
                          Due(jobs[k]) =>
                              /\ jobs[k].priority <= c.priority
                              /\ jobs[k].priority = c.priority =>
                                    IsoTime(c.created_at)
                                        <= IsoTime(jobs[k].created_at)
          /\ NoWorkStep(w) => \A k \in Ids : ~Due(jobs[k])]_vars

C9_RunsUntilDead ==
    /\ [](\A j \in Ids :
            /\ runs[j] <= jobs[j].max_retries + 1
            /\ jobs[j].state = "dead" =>
                  /\ runs[j] = jobs[j].max_retries + 1
                  /\ jobs[j].attempts = jobs[j].max_retries + 1
                  /\ jobs[j].last_error = "Max retries exceeded")
    /\ [][\A j \in Ids :
            jobs[j].state = "dead" =>
                jobs'[j] = jobs[j] /\ runs'[j] = runs[j]]_vars

\* The job is dead after four executions, and the worker has polled again.
C9_Witness ==
    \E j \in Ids :
        /\ jobs[j].state = "dead"
        /\ runs[j] = 4
        /\ jobs[j].attempts = 4
        /\ pc[1] = "claim"
        /\ now > IsoTime(jobs[j].updated_at)

\* C10: a job is completed only if the last outcome recorded on it was exit
\* code 0, and recording a success leaves attempts unchanged.
C10_CompletedMeansExitZero ==
    /\ [](\A j \in Ids : jobs[j].state = "completed" => lastExit[j] = 0)
    /\ [][\A w \in Workers :
            (FinishStep(w) /\ lastExit'[held[w].id] = 0) =>
                /\ jobs'[held[w].id].state = "completed"
                /\ jobs'[held[w].id].attempts = jobs[held[w].id].attempts]_vars

\* A completed job that had failed before and that a worker is still running.
C10_Witness ==
    \E j \in Ids :
        /\ jobs[j].state = "completed"
        /\ jobs[j].attempts > 0
        /\ \E w \in Workers : pc[w] = "run" /\ held[w].id = j

\* C11: an execution that runs into its timeout is reported as exit code 124,
\* and the failure recorded on the job has a last_error that names the
\* timeout ("Timeout after N seconds").
C11_TimeoutLastError ==
    [][\A w \in Workers :
          (FinishStep(w) /\ lastExit'[held[w].id] = TimeoutCode) =>
              jobs'[held[w].id].last_error = "Timeout after N seconds"]_vars

\* A step in which enqueue_job inserted a row.
EnqueueStep == Len(jobs') = Len(jobs) + 1

\* C12: a job enqueued after a config set carries the max_retries and
\* base_backoff of the configuration current at enqueue time.
C12_ConfigAtEnqueue ==
    [][EnqueueStep =>
          LET row == jobs'[Len(jobs')]
          IN  /\ row.max_retries = load_config["max_retries"]
              /\ row.base_backoff = load_config["base_backoff"]]_vars

\* C13: a successful enqueue adds exactly one job, under an id no existing job
\* has, pending with attempts = 0, no lock, no last_error, no last_output and
\* created_at = updated_at, and leaves every existing row as it was.
C13_EnqueueFrame ==
    [][EnqueueStep =>
          LET id == Len(jobs')
              row == jobs'[id]
          IN  /\ id \notin Ids
              /\ row.state = "pending"
              /\ row.attempts = 0
              /\ row.locked_by = NoWorker /\ row.locked_at = NULL
              /\ row.last_error = "NULL"
              /\ row.last_output = NULL
              /\ row.created_at = row.updated_at
              /\ \A j \in Ids : jobs'[j] = jobs[j]]_vars

\* A second job, just enqueued at a later instant than the outcome of the
\* first, which has failed once.
C13_Witness ==
    /\ Len(jobs) = 2
    /\ cmd.name = "enqueue"
    /\ jobs[1].attempts = 1 /\ jobs[1].last_error = "Job failed"
    /\ jobs[2].state = "pending" /\ jobs[2].attempts = 0
    /\ jobs[2].created_at = now_iso
    /\ jobs[2].created_at > jobs[1].updated_at

\* C14: an enqueue that is given both --run-at and --delay, or a --run-at that
\* does not parse, ends with an error and inserts no job: the store is as it
\* was.
C14_EnqueueRejected ==
    [][\A r \in RunAtArgs, d \in DelayArgs :
          (/\ (r # NULL /\ d # NULL) \/ r = BadTime
           /\ enqueue(0, r, d, CliJobs))
              => /\ cmd'.name = "enqueue" /\ cmd'.exit # 0
                 /\ UNCHANGED <<jobs, columns, config, configFile>>]_vars

\* An enqueue has been rejected for its --run-at while the queue had room.
C14_Witness ==
    /\ cmd.name = "enqueue" /\ cmd.exit = 1
    /\ columns = JobColumns
    /\ Len(jobs) < CliJobs

\* The UPDATE of a recovery sweep.
SweepStep == startPc = "update" /\ startPc' = "idle"

\* A processing row whose locked_at is an instant before the cutoff.
Stale(row, cutoffIso) ==
    /\ row.state = "processing"
    /\ row.locked_at # NULL
    /\ IsoTime(row.locked_at) < IsoTime(cutoffIso)

\* C15: the recovery sweep moves every processing job whose locked_at is
\* older than its cutoff (now - stale_after) to pending, with locked_by and
\* locked_at cleared and attempts unchanged, and changes no other job.
C15_SweepFrame ==
    [][SweepStep =>
          \A j \in Ids :
              IF Stale(jobs[j], startCutoff)
              THEN /\ jobs'[j].state = "pending"
                   /\ jobs'[j].locked_by = NoWorker
                   /\ jobs'[j].locked_at = NULL
                   /\ jobs'[j].attempts = jobs[j].attempts
              ELSE jobs'[j] = jobs[j]]_vars

\* The UPDATE of retry_dead_job, after which it returns True; it returns
\* False from its SELECT, which changes nothing.
RearmStep == dlqPc # 0 /\ dlqPc' = 0

\* C16: the DLQ re-arm changes a row, and returns true, only for a job that
\* is dead, which it makes pending with attempts = 0, no next_run_at and no
\* last_error; for a job in any other state no row changes.
C16_RearmOnlyDead ==
    [][RearmStep =>
          /\ jobs[dlqPc].state = "dead"
          /\ jobs'[dlqPc].state = "pending"
          /\ jobs'[dlqPc].attempts = 0
          /\ jobs'[dlqPc].next_run_at = NULL
          /\ jobs'[dlqPc].last_error = "NULL"
          /\ \A k \in Ids \ {dlqPc} : jobs'[k] = jobs[k]]_vars

\* C17: when a job that the DLQ re-arm has made pending again then succeeds,
\* it is completed with attempts equal to the number of failures recorded on
\* it since the re-arm.
C17_AttemptsAfterRearm ==
    [][\A w \in Workers :
          (/\ FinishStep(w)
           /\ held[w].id \in rearmed
           /\ lastExit'[held[w].id] = 0)
              => /\ jobs'[held[w].id].state = "completed"
                 /\ jobs'[held[w].id].attempts = fails[held[w].id]]_vars

\* C18: with workers that keep running and no stop flag, every job of the
\* population is executed at least once and eventually is completed or dead.
C18_AtLeastOnce ==
    <>(\A j \in 1..LiveJobs :
          /\ runs[j] >= 1
          /\ jobs[j].state \in {"completed", "dead"})

\* One job is dead after four executions, the other completed on its third.
C18_Witness ==
    \E j, k \in Ids :
        /\ jobs[j].state = "dead" /\ runs[j] = DefaultMaxRetries + 1
        /\ jobs[k].state = "completed" /\ runs[k] = 3

\* Worker w leaves worker_loop.
ExitStep(w) == pc[w] # "off" /\ pc'[w] = "off"

\* C19: a worker looks at the stop flag only between jobs.  When the flag is
\* there at its check, it exits and claims nothing; a worker that is running
\* a job goes on only by writing that job's outcome; so a worker exits only
\* from the check, with the flag set, holding no job and with no job in
\* processing under its lock.
C19_StopBetweenJobs ==
    [][\A w \in Workers :
          /\ (pc[w] = "check" /\ stopFlag /\ pc'[w] # "check")
                => pc'[w] = "off" /\ jobs' = jobs
          /\ (pc[w] = "run" /\ pc'[w] # "run")
                => /\ FinishStep(w)
                   /\ lastExit'[held[w].id] # NULL
                   /\ jobs'[held[w].id].state # "processing"
          /\ ExitStep(w)
                => /\ pc[w] = "check" /\ stopFlag
                   /\ held[w] = NoJob
                   /\ \A j \in Ids :
                         ~(jobs[j].state = "processing"
                              /\ jobs[j].locked_by = w)]_vars

\* Worker 1 has run a job to its outcome and has then left on the stop flag.
C19_Witness ==
    /\ stopFlag
    /\ pc[1] = "off"
    /\ \E j \in Ids : jobs[j].locked_by = 1 /\ jobs[j].state = "completed"

\* A run of queuectl init.
InitStep == cmd'.flip # cmd.flip /\ cmd'.name = "init"

\* C20: init on a store that is already initialized changes nothing: every
\* job row, every config entry (also one changed since the first init) and
\* the schema are as before.
C20_InitTwice ==
    [][(InitStep /\ columns # {})
          => UNCHANGED <<jobs, columns, config, configFile>>]_vars

\* init was the last command, after an enqueue and a config set; the job has
\* completed and a config entry has been changed.
C20_Witness ==
    /\ cmd.name = "init"
    /\ Len(jobs) = 1 /\ jobs[1].state = "completed"
    /\ configFile["max_retries"] = 9
    /\ config["base_backoff"] = 9

\* C21: the k-th failure of a job that is retried puts next_run_at
\* base_backoff^k seconds after the instant of the failure write, and no
\* claim moves the job to processing before that instant.
C21_BackoffDelay ==
    [][\A w \in Workers :
          /\ (FinishStep(w) /\ jobs'[held[w].id].state = "pending") =>
                LET j == held[w].id
                IN  IsoTime(jobs'[j].next_run_at)
                       = now + Pow(jobs[j].base_backoff, fails'[j]) * Sub
          /\ (ClaimStep(w) /\ fails[held'[w].id] > 0) =>
                IsoTime(jobs[held'[w].id].next_run_at) <= now]_vars

\* The first half of C21 alone: the delay written by a failure.
C21_DelayWritten ==
    [][\A w \in Workers :
          (FinishStep(w) /\ jobs'[held[w].id].state = "pending") =>
              LET j == held[w].id
              IN  IsoTime(jobs'[j].next_run_at)
                     = now + Pow(jobs[j].base_backoff, fails'[j]) * Sub]_vars

\* worker-stop creates the stop flag.
StopStep == ~stopFlag /\ stopFlag'

\* C22: no operation removes a job: the ids of the table stay, in their
\* order, across every step, and the rows are as they were across
\* worker-stop, the exit of a worker and a repeated init; across the sweep
\* and restart of worker-start every job that is completed or dead keeps all
\* its fields.
C22_JobsPersist ==
    [][/\ Len(jobs') >= Len(jobs)
       /\ (StopStep \/ InitStep \/ \E w \in Workers : ExitStep(w))
             => jobs' = jobs
       /\ SweepStep =>
             \A j \in Ids :
                 jobs[j].state \in {"completed", "dead"} => jobs'[j] = jobs[j]
      ]_vars

\* A completed job whose worker has left on the stop flag, after a
\* worker-start that has then cleared the flag, and after a second init.
C22_Witness ==
    /\ ~stopFlag
    /\ pc[2] = "off"
    /\ startPc = "idle"
    /\ cmd.name = "init" /\ cmd.flip = 1
    /\ \E j \in Ids : jobs[j].state = "completed" /\ jobs[j].locked_by = 2

\* C23: the last_output of every job is absent or at most 5000 characters
\* long, whatever the length of what the command printed, after a success,
\* after a failure that is retried and after the failure that makes the job
\* dead.
C23_OutputCapped ==
    \A j \in Ids :
        jobs[j].last_output = NULL \/ jobs[j].last_output <= OutputCap

\* A job is dead with 5000 characters kept of the 5001 its last execution
\* printed.
C23_Witness ==
    \E j \in Ids :
        /\ jobs[j].state = "dead"
        /\ lastExit[j] = 1
        /\ jobs[j].last_output = OutputCap

C25_OutcomeOnlyFromProcessing ==
    [][\A w \in Workers :
          (/\ FinishStep(w)
           /\ ~(jobs[held[w].id].state = "processing"
                   /\ jobs[held[w].id].locked_by = w))
              => jobs'[held[w].id] = jobs[held[w].id]]_vars

\* C26: the ids that a recovery sweep returns are exactly the jobs that this
\* sweep has moved from processing to pending.
C26_SweepReturnsMoved ==
    [][SweepStep =>
          startStuck = {j \in Ids : /\ jobs[j].state = "processing"
                                    /\ jobs'[j].state = "pending"}]_vars

\* C27: every failure outcome raises the stored attempts by exactly 1, so the
\* attempts of a job is the number of failure outcomes recorded for it since
\* it was enqueued or last re-armed from the DLQ.
C27_AttemptsCountFailures ==
    \A j \in Ids : jobs[j].attempts = fails[j]

\* C28: the updated_at of a job is never earlier than its created_at, and no
\* write (claim, outcome, sweep, re-arm) moves the updated_at of a job back.
C28_TimestampsMonotone ==
    [][\A j \in 1..Len(jobs') :
          /\ IsoTime(jobs'[j].created_at) <= IsoTime(jobs'[j].updated_at)
          /\ j \in Ids =>
                IsoTime(jobs[j].updated_at) <= IsoTime(jobs'[j].updated_at)
      ]_vars

\* C29: the dashboard only reads: no request to it changes the state, the
\* attempts, the next_run_at, the last_error or the lock fields of a job.
C29_DashboardReadOnly ==
    [][\A j \in 1..MaxJobs :
          job_retry(j) =>
              \A k \in Ids :
                  /\ jobs'[k].state = jobs[k].state
                  /\ jobs'[k].attempts = jobs[k].attempts
                  /\ jobs'[k].next_run_at = jobs[k].next_run_at
                  /\ jobs'[k].last_error = jobs[k].last_error
                  /\ jobs'[k].locked_by = jobs[k].locked_by
                  /\ jobs'[k].locked_at = jobs[k].locked_at]_vars

\* C30: once worker-stop has created the stop flag, every worker that runs
\* at that moment eventually exits, whatever else happens, a later
\* worker-start included.
C30_StopReachesWorkers ==
    \A w \in Workers : (stopFlag /\ pc[w] # "off") ~> (pc[w] = "off")
====
